---- MODULE Spec2Model ----
(***************************************************************************)
(* Model of the regime classifier (src/src/regime_classifier.py) and of    *)
(* the decision gate (src/src/decision_gate.py).                           *)
(*                                                                         *)
(* Number representation.  The code computes on floats; the model computes *)
(* the same quantities exactly, on integers:                               *)
(*   - a return  p[t]/p[t-1] - 1  is stored as  PriceScale * return;       *)
(*   - a rolling standard deviation over n returns is stored as            *)
(*       W = n*Sum(R^2) - Sum(R)^2   (R the scaled returns), that is       *)
(*       std = sqrt(W / (n*(n-1))) / PriceScale : for one configuration n  *)
(*       is fixed, so std is a strictly increasing function of W;          *)
(*   - a rolling median is stored as the pair (lo, hi) of its two middle   *)
(*       order statistics (lo = hi for an odd window): median = the mean   *)
(*       of the two;                                                       *)
(*   - a slope is stored as its numerator d = p[t] - p[t-lookback], the    *)
(*       denominator being the configured lookback;                        *)
(*   - vol_mult_high and slope_threshold are rationals num/den.            *)
(* A missing value (NaN) is the record NaN; sequence position i of the     *)
(* model is index i-1 of the Python series.                                *)
(***************************************************************************)
EXTENDS Integers, Sequences, FiniteSets, TLC

VARIABLES close, cfg, result, regimes, decisions

vars == <<close, cfg, result, regimes, decisions>>

----------------------------------------------------------------------------
(* Bounds of the model *)

MaxLen == 5
MaxWin == 2
MaxTail == 1
MaxCalls == 3

(* slope.abs().rolling(200) *)
AutoWindow == 200

Prices == {0, 1, 2}

RECURSIVE Product(_)
Product(S) ==
  IF S = {} THEN 1
  ELSE LET x == CHOOSE y \in S : TRUE IN x * Product(S \ {x})

PriceScale == Product(Prices \ {0})

Abs(x) == IF x < 0 THEN -x ELSE x

Max(a, b) == IF a >= b THEN a ELSE b

Rat(n, d) == [num |-> n, den |-> d]

----------------------------------------------------------------------------
(* RegimeConfig *)

RegimeConfig(lv, lt, tvw, vmh, st) ==
  [lookback_vol |-> lv, lookback_trend |-> lt, typical_vol_window |-> tvw,
   vol_mult_high |-> vmh, slope_threshold |-> st]

VolMults == {Rat(1, 1), Rat(3, 2)}

SlopeThresholds == {Rat(0, 1), Rat(1, 2), Rat(1, 1)}

ValidConfigs ==
  {RegimeConfig(lv, lt, tvw, vmh, st) :
     lv \in 1..MaxWin, lt \in 1..MaxWin, tvw \in 1..MaxWin,
     vmh \in VolMults, st \in SlopeThresholds}

MalformedConfigs ==
  {RegimeConfig(lv, 1, 1, Rat(1, 1), Rat(1, 2)) : lv \in {-1, 0}}
  \cup {RegimeConfig(2, lt, 1, Rat(1, 1), Rat(1, 2)) : lt \in {-1, 0}}
  \cup {RegimeConfig(2, 1, tvw, Rat(1, 1), Rat(1, 2)) : tvw \in {-1, 0}}
  \cup {RegimeConfig(2, 1, 2, Rat(-1, 1), st) : st \in {Rat(0, 1), Rat(1, 2)}}

Configs == ValidConfigs \cup MalformedConfigs

----------------------------------------------------------------------------
(* Values *)

NaN == [k |-> "nan", v |-> 0]
Inf == [k |-> "inf", v |-> 0]
Num(x) == [k |-> "num", v |-> x]
IsNum(x) == x.k = "num"

NaNPair == [k |-> "nan", lo |-> 0, hi |-> 0]
NaNRat == [k |-> "nan", num |-> 0, den |-> 1]

(* a series held as a value, each element computed once *)
Series(f) == f @@ <<>>

RECURSIVE SumOver(_, _, _)
SumOver(f, a, b) == IF a > b THEN 0 ELSE f[a] + SumOver(f, a + 1, b)

(* the k-th smallest (k = 1 is the minimum) of the values of vals *)
Kth(vals, k) ==
  CHOOSE v \in {vals[j] : j \in DOMAIN vals} :
    /\ Cardinality({j \in DOMAIN vals : vals[j] < v}) < k
    /\ Cardinality({j \in DOMAIN vals : vals[j] <= v}) >= k

(* pandas rolling(window): a negative window raises ValueError *)
RollingRaises(window) == window < 0

(* pandas rolling(window) with min_periods = window: the statistic at i is
   defined only for a full window holding no missing value; infinite values
   count as missing *)
WindowFull(s, window, i) ==
  /\ window >= 1
  /\ i >= window
  /\ \A j \in (i - window + 1)..i : IsNum(s[j])

(* the two middle order statistics of the window ending at i *)
RollingMedian(s, window) ==
  [i \in 1..Len(s) |->
     IF ~WindowFull(s, window, i) THEN NaNPair
     ELSE LET vals == [j \in 1..window |-> s[i - window + j].v]
          IN [k |-> "num",
              lo |-> Kth(vals, (window + 1) \div 2),
              hi |-> Kth(vals, (window \div 2) + 1)]]

----------------------------------------------------------------------------
(* simple_returns, rolling_volatility, simple_slope *)

simple_returns(c) ==
  [i \in 1..Len(c) |->
     IF i = 1 THEN NaN
     ELSE IF c[i - 1] = 0 THEN (IF c[i] = 0 THEN NaN ELSE Inf)
     ELSE Num(((c[i] - c[i - 1]) * PriceScale) \div c[i - 1])]

(* sample standard deviation (ddof = 1): undefined for fewer than 2 values *)
rolling_volatility(returns, window) ==
  [i \in 1..Len(returns) |->
     IF window < 2 \/ ~WindowFull(returns, window, i) THEN NaN
     ELSE LET r == [j \in 1..window |-> returns[i - window + j].v]
              sq == [j \in 1..window |-> r[j] * r[j]]
              s == SumOver(r, 1, window)
          IN Num(window * SumOver(sq, 1, window) - s * s)]

simple_slope_lookahead(c, lookback) ==
  [i \in 1..Len(c) |->
     IF lookback = 0 \/ (i + lookback) \notin 1..Len(c) THEN NaN
     ELSE Num(c[i] - c[i + lookback])]

(* close.shift(lookback) is missing outside the series; x / 0.0 is NaN here
   because the numerator is then close - close = 0 *)
simple_slope(c, lookback) ==
  [i \in 1..Len(c) |->
     IF lookback = 0 \/ (i - lookback) \notin 1..Len(c) THEN NaN
     ELSE Num(c[i] - c[i - lookback])]

----------------------------------------------------------------------------
(* classify_regimes *)

typical_vol(vol, window) == RollingMedian(vol, window)

SlopeAbs(slope) ==
  [i \in 1..Len(slope) |-> IF IsNum(slope[i]) THEN Num(Abs(slope[i].v)) ELSE NaN]

(* the threshold on abs(slope), as a rational *)
slope_threshold(slope, c) ==
  IF c.slope_threshold.num <= 0
  THEN LET med == Series(RollingMedian(Series(SlopeAbs(slope)), AutoWindow))
       IN [i \in 1..Len(slope) |->
             IF med[i].k = "num"
             THEN [k |-> "num", num |-> med[i].lo + med[i].hi,
                   den |-> 2 * Abs(c.lookback_trend)]
             ELSE NaNRat]
  ELSE [i \in 1..Len(slope) |->
          [k |-> "num", num |-> c.slope_threshold.num,
           den |-> c.slope_threshold.den]]

min_bars_trend_only(c) == c.lookback_trend + 1

min_bars_needed(c) ==
  Max(c.lookback_trend + 1, c.typical_vol_window + c.lookback_vol + 1)

(* vol > median * m, for vol = sqrt(W), median = (sqrt(lo) + sqrt(hi)) / 2,
   up to the common positive factor of the representation *)
VolGreater(W, med, m) ==
  IF m.num < 0 THEN W > 0 \/ med.lo + med.hi > 0
  ELSE LET L == 4 * m.den * m.den * W - m.num * m.num * (med.lo + med.hi)
       IN L > 0 /\ L * L > 4 * m.num * m.num * m.num * m.num * med.lo * med.hi

VolEqual(W, med, m) ==
  /\ m.num >= 0
  /\ LET L == 4 * m.den * m.den * W - m.num * m.num * (med.lo + med.hi)
     IN L >= 0 /\ L * L = 4 * m.num * m.num * m.num * m.num * med.lo * med.hi

(* abs(slope) > thr, abs(slope) <= thr; lb is the lookback (nonzero where
   the slope is defined) *)
SlopeGreater(d, thr, lb) == Abs(d) * thr.den > thr.num * Abs(lb)
SlopeLessEq(d, thr, lb) == Abs(d) * thr.den <= thr.num * Abs(lb)

volatile_mask_geq(vol, typ, c) ==
  [i \in 1..Len(vol) |->
     /\ IsNum(vol[i])
     /\ typ[i].k = "num"
     /\ \/ VolGreater(vol[i].v, typ[i], c.vol_mult_high)
        \/ VolEqual(vol[i].v, typ[i], c.vol_mult_high)]

volatile_mask(vol, typ, c) ==
  [i \in 1..Len(vol) |->
     /\ IsNum(vol[i])
     /\ typ[i].k = "num"
     /\ VolGreater(vol[i].v, typ[i], c.vol_mult_high)]

trend_mask_no_abs(vm, slope, thr, c) ==
  [i \in 1..Len(slope) |->
     /\ ~vm[i]
     /\ IsNum(slope[i])
     /\ thr[i].k = "num"
     /\ slope[i].v * c.lookback_trend > 0
     /\ SlopeGreater(slope[i].v, thr[i], c.lookback_trend)]

trend_mask(vm, slope, thr, c) ==
  [i \in 1..Len(slope) |->
     /\ ~vm[i]
     /\ IsNum(slope[i])
     /\ thr[i].k = "num"
     /\ SlopeGreater(slope[i].v, thr[i], c.lookback_trend)]

range_mask_strict(vm, slope, thr, c) ==
  [i \in 1..Len(slope) |->
     /\ ~vm[i]
     /\ IsNum(slope[i])
     /\ thr[i].k = "num"
     /\ ~SlopeGreater(slope[i].v, thr[i], c.lookback_trend)
     /\ Abs(slope[i].v) * thr[i].den # thr[i].num * Abs(c.lookback_trend)]

range_mask_any_vol(vm, slope, thr, c) ==
  [i \in 1..Len(slope) |->
     /\ IsNum(slope[i])
     /\ thr[i].k = "num"
     /\ SlopeLessEq(slope[i].v, thr[i], c.lookback_trend)]

range_mask(vm, slope, thr, c) ==
  [i \in 1..Len(slope) |->
     /\ ~vm[i]
     /\ IsNum(slope[i])
     /\ thr[i].k = "num"
     /\ SlopeLessEq(slope[i].v, thr[i], c.lookback_trend)]

(* labels[mask] = tag *)
AssignMask(labels, mask, tag) ==
  [i \in 1..Len(labels) |-> IF mask[i] THEN tag ELSE labels[i]]

Uncertain(c) == [i \in 1..Len(c) |-> "UNCERTAIN"]

(* the local series of classify_regimes, each held as a value *)
Returns(c) == Series(simple_returns(c))
Vol(c, g) == Series(rolling_volatility(Returns(c), g.lookback_vol))
Typ(vol, g) == Series(typical_vol(vol, g.typical_vol_window))
Slope(c, g) == Series(simple_slope(c, g.lookback_trend))
Thr(slope, g) == Series(slope_threshold(slope, g))

Outcome(status, labels, vol, typ, slope, thr, vm, tm, rm) ==
  [status |-> status, labels |-> labels, vol |-> vol, typ |-> typ,
   slope |-> slope, thr |-> thr, vm |-> vm, tm |-> tm, rm |-> rm]

(* The outcome of one call: "raised" or "returned" with the labels, and the
   values the local variables vol, typical_vol, slope, slope_threshold and
   the three masks held when the call ended (<<>> for one never assigned). *)
classify_regimes(c, g) ==
  IF RollingRaises(g.lookback_vol) \/ RollingRaises(g.typical_vol_window)
  THEN Outcome("raised", <<>>, <<>>, <<>>, <<>>, <<>>, <<>>, <<>>, <<>>)
  ELSE LET vol == Vol(c, g)
           typ == Typ(vol, g)
           slope == Slope(c, g)
           thr == Thr(slope, g)
       IN IF Len(c) < min_bars_needed(g)
          THEN Outcome("returned", Uncertain(c), vol, typ, slope, thr,
                       <<>>, <<>>, <<>>)
          ELSE LET vm == Series(volatile_mask(vol, typ, g))
                   tm == Series(trend_mask(vm, slope, thr, g))
                   rm == Series(range_mask(vm, slope, thr, g))
               IN Outcome("returned",
                          AssignMask(AssignMask(AssignMask(Uncertain(c),
                            vm, "VOLATILE"), tm, "TREND"), rm, "RANGE"),
                          vol, typ, slope, thr, vm, tm, rm)

----------------------------------------------------------------------------
(* decision_gate *)

Decision(allow, size, note) ==
  [allow_trade |-> allow, position_size |-> size, note |-> note]

decision_gate_else_allows(regime) ==
  IF regime = "TREND"
  THEN Decision(TRUE, Rat(1, 1), "Trend regime: full risk allowed")
  ELSE IF regime = "VOLATILE"
  THEN Decision(FALSE, Rat(0, 1), "Volatile regime: trading disabled")
  ELSE IF regime = "UNCERTAIN"
  THEN Decision(FALSE, Rat(0, 1), "Uncertain regime: no trade")
  ELSE Decision(TRUE, Rat(1, 2), "Range regime: reduced size")

decision_gate(regime) ==
  IF regime = "TREND"
  THEN Decision(TRUE, Rat(1, 1), "Trend regime: full risk allowed")
  ELSE IF regime = "RANGE"
  THEN Decision(TRUE, Rat(1, 2), "Range regime: reduced size")
  ELSE IF regime = "VOLATILE"
  THEN Decision(FALSE, Rat(0, 1), "Volatile regime: trading disabled")
  ELSE Decision(FALSE, Rat(0, 1), "Uncertain regime: no trade")

LabelSet == {"TREND", "RANGE", "VOLATILE", "UNCERTAIN"}

RegimeInputs == LabelSet \cup {"", "trend", "BULL"}

----------------------------------------------------------------------------
(* The state machine: a caller classifies a growing price series under one
   configuration; a second caller maps labels through the decision gate. *)

IsFlat(c) == \A i \in 1..Len(c) : c[i] = c[1]

Init ==
  /\ cfg \in Configs
  /\ close = <<>>
  /\ result = classify_regimes(<<>>, cfg)
  /\ regimes = <<>>
  /\ decisions = <<>>

(* classify_regimes on the series extended by one bar *)
AppendBar(p) ==
  /\ \/ Len(close) < MaxLen
     \/ /\ Len(close) >= AutoWindow
        /\ Len(close) < cfg.lookback_trend + AutoWindow - 1 + MaxTail
  /\ close' = Append(close, p)
  /\ result' = classify_regimes(close', cfg)
  /\ UNCHANGED <<cfg, regimes, decisions>>

(* classify_regimes on a constant series of MaxLen bars extended to one bar
   short of the first index at which the auto threshold is defined *)
ExtendFlat ==
  /\ Len(close) = MaxLen
  /\ IsFlat(close)
  /\ cfg.lookback_trend >= 1
  /\ close' = [i \in 1..(cfg.lookback_trend + AutoWindow - 1) |-> close[1]]
  /\ result' = classify_regimes(close', cfg)
  /\ UNCHANGED <<cfg, regimes, decisions>>

Next == (\E p \in Prices : AppendBar(p)) \/ ExtendFlat

Spec == Init /\ [][Next]_vars

InitGate ==
  /\ cfg = RegimeConfig(2, 1, 1, Rat(1, 1), Rat(1, 2))
  /\ close = <<>>
  /\ result = classify_regimes(<<>>, cfg)
  /\ regimes = <<>>
  /\ decisions = <<>>

(* decision_gate(regime) *)
Decide(regime) ==
  /\ Len(regimes) < MaxCalls
  /\ regimes' = Append(regimes, regime)
  /\ decisions' = Append(decisions, decision_gate(regime))
  /\ UNCHANGED <<close, cfg, result>>

NextGate == \E regime \in RegimeInputs : Decide(regime)

GateSpec == InitGate /\ [][NextGate]_vars

----------------------------------------------------------------------------
(* Vocabulary of the properties, stated on the data model of the
   specification and independently of the classifier's own definitions. *)

Labels == result.labels
Returned == result.status = "returned"

ValidConfig(g) ==
  /\ g.lookback_vol >= 1
  /\ g.lookback_trend >= 1
  /\ g.typical_vol_window >= 1
  /\ g.vol_mult_high.num > 0
  /\ g.slope_threshold.num >= 0

Malformed(g) ==
  \/ g.lookback_vol <= 0
  \/ g.lookback_trend <= 0
  \/ g.typical_vol_window <= 0
  \/ g.vol_mult_high.num < 0

FixedThreshold(g) == g.slope_threshold.num > 0

PositivePrices == \A i \in 1..Len(close) : close[i] > 0

(* min_bars = max(lookback_trend + 1, typical_vol_window + lookback_vol + 1) *)
MinBars ==
  IF cfg.lookback_trend + 1 >= cfg.typical_vol_window + cfg.lookback_vol + 1
  THEN cfg.lookback_trend + 1
  ELSE cfg.typical_vol_window + cfg.lookback_vol + 1

GatePassed == Returned /\ Len(close) >= MinBars

(* volatility strictly above baseline * vol_mult_high at position i *)
StrictlyVolatile(vol, typ, i) ==
  /\ IsNum(vol[i])
  /\ typ[i].k = "num"
  /\ VolGreater(vol[i].v, typ[i], cfg.vol_mult_high)

(* volatility exactly equal to baseline * vol_mult_high at position i *)
VolatilityTie(vol, typ, i) ==
  /\ IsNum(vol[i])
  /\ typ[i].k = "num"
  /\ VolEqual(vol[i].v, typ[i], cfg.vol_mult_high)

SlopeTie(slope, thr, i) ==
  /\ IsNum(slope[i])
  /\ thr[i].k = "num"
  /\ Abs(slope[i].v) * thr[i].den = thr[i].num * Abs(cfg.lookback_trend)

(* the labels with the three masks written in the given order *)
LabelsInOrder(order) ==
  LET maskOf(tag) == IF tag = "VOLATILE" THEN result.vm
                     ELSE IF tag = "TREND" THEN result.tm ELSE result.rm
  IN AssignMask(AssignMask(AssignMask(Uncertain(close),
        maskOf(order[1]), order[1]), maskOf(order[2]), order[2]),
        maskOf(order[3]), order[3])

MaskOrders ==
  {o \in [1..3 -> {"VOLATILE", "TREND", "RANGE"}] :
     \A a, b \in 1..3 : a # b => o[a] # o[b]}

----------------------------------------------------------------------------
(* C1: once the gate passes, a position at which volatility, its baseline,
   the slope or the slope threshold is undefined keeps the label UNCERTAIN
   (stated for valid configurations and positive prices).  The code labels
   such positions TREND or RANGE in fixed-threshold mode. *)
C1_UndefinedStaysUncertain ==
  (ValidConfig(cfg) /\ PositivePrices /\ GatePassed) =>
    LET vol == result.vol
        typ == result.typ
        slope == result.slope
        thr == result.thr
    IN \A i \in 1..Len(close) :
         (\/ ~IsNum(vol[i])
          \/ typ[i].k # "num"
          \/ ~IsNum(slope[i])
          \/ thr[i].k # "num") => Labels[i] = "UNCERTAIN"

(* C2: a series shorter than min_bars is labelled UNCERTAIN at every index,
   in fixed and in auto threshold mode; a valid configuration always
   returns. *)
C2_ShortSeriesAllUncertain ==
  /\ (ValidConfig(cfg) => Returned)
  /\ (Returned /\ Len(close) < MinBars) =>
       /\ Len(Labels) = Len(close)
       /\ \A i \in 1..Len(close) : Labels[i] = "UNCERTAIN"

C2_Witness ==
  /\ ValidConfig(cfg) /\ FixedThreshold(cfg) /\ PositivePrices
  /\ Len(close) = MinBars - 1
  /\ Len(close) > cfg.lookback_trend
  /\ Returned
  /\ \A i \in 1..Len(close) : Labels[i] = "UNCERTAIN"

(* C3: one label per index, each one of the four tags; at every index at
   most one of the three masks is true, so that writing the masks in any
   order gives the same labels. *)
C3_OneLabelPerIndex ==
  Returned =>
    /\ DOMAIN Labels = DOMAIN close
    /\ \A i \in 1..Len(close) : Labels[i] \in LabelSet
    /\ GatePassed =>
         /\ \A i \in 1..Len(close) :
              /\ ~(result.vm[i] /\ result.tm[i])
              /\ ~(result.vm[i] /\ result.rm[i])
              /\ ~(result.tm[i] /\ result.rm[i])
         /\ \A o \in MaskOrders : LabelsInOrder(o) = Labels

C3_Witness ==
  /\ ValidConfig(cfg) /\ PositivePrices /\ GatePassed
  /\ \E i, j, k \in 1..Len(close) :
       /\ Labels[i] = "VOLATILE"
       /\ Labels[j] = "TREND"
       /\ Labels[k] = "RANGE"

(* C4: the decision gate maps TREND to (allow, 1.0), RANGE to (allow, 0.5)
   and every other input, known or not, to (no trade, 0.0); every call
   returns a decision. *)
C4_GateFailSafe ==
  /\ Len(decisions) = Len(regimes)
  /\ \A i \in 1..Len(regimes) :
       /\ regimes[i] = "TREND" =>
            /\ decisions[i].allow_trade = TRUE
            /\ decisions[i].position_size = Rat(1, 1)
       /\ regimes[i] = "RANGE" =>
            /\ decisions[i].allow_trade = TRUE
            /\ decisions[i].position_size = Rat(1, 2)
       /\ regimes[i] \notin {"TREND", "RANGE"} =>
            /\ decisions[i].allow_trade = FALSE
            /\ decisions[i].position_size = Rat(0, 1)

C4_Witness ==
  /\ Len(decisions) = 3
  /\ regimes = <<"TREND", "RANGE", "BULL">>
  /\ decisions[3].allow_trade = FALSE

(* C5: a series holding a non-positive price makes classify_regimes signal
   a failure instead of returning labels.  The code returns labels. *)
C5_NonPositivePriceRaises ==
  (ValidConfig(cfg) /\ \E i \in 1..Len(close) : close[i] <= 0) =>
    result.status = "raised"

(* C6: a malformed configuration (a window <= 0 or a negative
   vol_mult_high) makes classify_regimes signal a failure instead of
   returning labels.  The code raises for a negative rolling window only. *)
C6_MalformedConfigRaises ==
  (Malformed(cfg) /\ Len(close) >= 1 /\ PositivePrices) =>
    result.status = "raised"

(* C7, as stated: a constant series of length >= min_bars is labelled RANGE
   at every index from min_bars - 1 on, for every valid configuration,
   auto-threshold mode included. *)
C7_FlatAllRange ==
  (ValidConfig(cfg) /\ PositivePrices /\ IsFlat(close) /\ GatePassed) =>
    \A i \in MinBars..Len(close) : Labels[i] = "RANGE"

(* C7, amended: a constant series of length >= min_bars is labelled RANGE
   at every index from min_bars - 1 on in fixed-threshold mode, and in
   auto-threshold mode at every such index from lookback_trend + 199 on
   (position lookback_trend + AutoWindow), where the rolling median of
   abs(slope) over 200 bars is first defined. *)
C7_FlatRangeOnceThresholdDefined ==
  (ValidConfig(cfg) /\ PositivePrices /\ IsFlat(close)
     /\ Len(close) >= MinBars) =>
    /\ Returned
    /\ \A i \in MinBars..Len(close) :
         (FixedThreshold(cfg) \/ i >= cfg.lookback_trend + AutoWindow)
           => Labels[i] = "RANGE"

C7_Witness ==
  /\ ValidConfig(cfg) /\ ~FixedThreshold(cfg) /\ PositivePrices
  /\ IsFlat(close)
  /\ Len(close) >= cfg.lookback_trend + AutoWindow
  /\ Len(close) >= MinBars
  /\ Labels[Len(close)] = "RANGE"
  /\ Labels[Len(close) - 1] = "UNCERTAIN"

(* C8: once the gate passes, a position that is not volatile and whose
   slope and threshold are defined is TREND iff abs(slope) > threshold and
   RANGE otherwise; a tie is RANGE. *)
C8_TrendIffSlopeAboveThreshold ==
  GatePassed =>
    LET vol == result.vol
        typ == result.typ
        slope == result.slope
        thr == result.thr
    IN \A i \in 1..Len(close) :
         (~StrictlyVolatile(vol, typ, i) /\ IsNum(slope[i])
            /\ thr[i].k = "num") =>
           /\ Labels[i] = "TREND" <=>
                Abs(slope[i].v) * thr[i].den
                  > thr[i].num * Abs(cfg.lookback_trend)
           /\ Labels[i] = "RANGE" <=>
                Abs(slope[i].v) * thr[i].den
                  <= thr[i].num * Abs(cfg.lookback_trend)
           /\ SlopeTie(slope, thr, i) => Labels[i] = "RANGE"

C8_Witness ==
  /\ ValidConfig(cfg) /\ PositivePrices /\ GatePassed
  /\ LET vol == result.vol
         typ == result.typ
         slope == result.slope
         thr == result.thr
     IN \E i \in 1..Len(close) :
          /\ ~StrictlyVolatile(vol, typ, i)
          /\ SlopeTie(slope, thr, i)
          /\ slope[i].v # 0
          /\ Labels[i] = "RANGE"

(* C9: once the gate passes, a position is VOLATILE iff its volatility and
   baseline are defined and volatility > baseline * vol_mult_high, whatever
   its slope; volatility equal to baseline * vol_mult_high is not
   VOLATILE. *)
C9_VolatileIffStrictlyAbove ==
  GatePassed =>
    LET vol == result.vol
        typ == result.typ
    IN \A i \in 1..Len(close) :
         /\ Labels[i] = "VOLATILE" <=> StrictlyVolatile(vol, typ, i)
         /\ VolatilityTie(vol, typ, i) => Labels[i] # "VOLATILE"

C9_Witness ==
  /\ ValidConfig(cfg) /\ PositivePrices /\ GatePassed
  /\ cfg.typical_vol_window > 1
  /\ LET vol == result.vol
         typ == result.typ
         slope == result.slope
         thr == result.thr
     IN /\ \E i \in 1..Len(close) :
             /\ VolatilityTie(vol, typ, i)
             /\ vol[i].v > 0
             /\ Labels[i] # "VOLATILE"
        /\ \E j \in 1..Len(close) :
             /\ Labels[j] = "VOLATILE"
             /\ IsNum(slope[j])
             /\ thr[j].k = "num"
             /\ SlopeGreater(slope[j].v, thr[j], cfg.lookback_trend)

(* C10: no look-ahead.  When a series of length >= min_bars is extended,
   under the same valid configuration, the labels of the bars it already
   had do not change. *)
C10_NoLookAhead ==
  [][(/\ cfg' = cfg
      /\ ValidConfig(cfg)
      /\ Len(close) >= MinBars
      /\ Len(close') >= Len(close)
      /\ SubSeq(close', 1, Len(close)) = close
      /\ Returned
      /\ result'.status = "returned")
     => \A i \in 1..Len(close) : result'.labels[i] = Labels[i]]_vars

C10_Witness ==
  /\ ValidConfig(cfg) /\ PositivePrices /\ Returned
  /\ Len(close) > MinBars
  /\ \E i \in 1..(Len(close) - 1) : Labels[i] \in {"TREND", "VOLATILE"}
  /\ Labels[Len(close)] # "UNCERTAIN"

====
